---- MODULE Spec2Model ----
(***************************************************************************)
(* Model of htdocs/js/console-manager.js: the ConsoleManager (console      *)
(* overrides with pattern suppression) and the AdaptivePerformanceSystem   *)
(* (network/device classification, getTimeout, executeWithRetry,           *)
(* executeWithTimeout).                                                     *)
(*                                                                         *)
(* JavaScript values are modelled as follows: a string is a TLA+ string,   *)
(* a number is an integer (times are milliseconds, a heap ratio is a       *)
(* percentage), `undefined` for a numeric browser property is 0 (both are  *)
(* falsy under `||`), and a rejected/thrown value is a string naming it.   *)
(***************************************************************************)
EXTENDS Integers, Sequences, FiniteSets, TLC

VARIABLES
    \* ---- ConsoleManager ----
    suppressedErrors,   \* this.suppressedErrors (a Set of keys)
    suppressPatterns,   \* this.suppressPatterns (an array)
    productionMode,     \* this.productionMode
    debugCategories,    \* this.debugCategories
    installed,          \* TRUE while console.error/warn/log are the overrides
    events,             \* history: the console calls and the clearing operations so far
    \* ---- AdaptivePerformanceSystem ----
    networkSpeed,       \* this.networkSpeed
    deviceCapability,   \* this.deviceCapability
    performanceMetrics, \* this.performanceMetrics
    memoryTimers,       \* number of live setInterval memory checks
    observers,          \* number of live resource PerformanceObservers
    browser,            \* the browser APIs the detector samples
    atInit,             \* history: the browser the last init() sampled and what it derived
    lastTimeout,        \* history: the last getTimeout call and its result
    nextEntry,          \* history: how many resource entries the browser has delivered
    \* ---- one executeWithRetry call ----
    rPc, rScript, rMax, rAttempt, rInvocations, rDelays, rLastError, rResult,
    \* ---- one executeWithTimeout call ----
    tName, tTimeout, tOp, tTimer, tRace, tFirst, tSettles

consoleVars == <<suppressedErrors, suppressPatterns, productionMode, debugCategories,
                 installed, events>>
perfVars    == <<networkSpeed, deviceCapability, performanceMetrics, memoryTimers,
                 observers, browser, atInit, lastTimeout, nextEntry>>
retryVars   == <<rPc, rScript, rMax, rAttempt, rInvocations, rDelays, rLastError, rResult>>
timeoutVars == <<tName, tTimeout, tOp, tTimer, tRace, tFirst, tSettles>>
vars        == <<consoleVars, perfVars, retryVars, timeoutVars>>

(***************************************************************************)
(* Bounds of the model.                                                    *)
(***************************************************************************)
MaxEvents   == 3   \* console calls / clearing operations kept in the history
MaxAttempts == 3   \* largest maxAttempts passed to executeWithRetry
MaxTimers   == 2   \* init() runs that may register a memory-check timer
MaxEntries  == 2   \* resource performance entries delivered
MaxMetricEntries == 102   \* resource entries delivered when the history is filled
MaxBackoffAttempts == 6   \* largest maxAttempts of the calls that only study the delays

(***************************************************************************)
(* String helpers: String.prototype.includes / substring / startsWith.     *)
(***************************************************************************)
Min(a, b) == IF a < b THEN a ELSE b

Includes(s, sub) ==
    \E i \in 1..(Len(s) - Len(sub) + 1) : SubSeq(s, i, i + Len(sub) - 1) = sub

Substring(s, from, to) == SubSeq(s, from + 1, Min(to, Len(s)))


(***************************************************************************)
(* ConsoleManager                                                          *)
(***************************************************************************)
InitialSuppressPatterns ==
    << "Tracking Prevention", "Permissions policy violation", "accelerometer",
       "streetview.js", "common.js", "init_embed.js", "Permission denied",
       "Error getting bookings", "Error getting users", "absences is not defined",
       "firebase-db.js", "Google Maps" >>

InitialDebugCategories ==
    [booking |-> FALSE, auth |-> FALSE, firebase |-> FALSE, ui |-> FALSE, all |-> FALSE]

\* const msg = args[0]?.toString() || ''
MessageOf(args) == IF Len(args) = 0 THEN "" ELSE args[1]

\* const key = pattern.substring(0, 20)   /   'w-' + pattern.substring(0, 20)
ErrorKey(pattern) == Substring(pattern, 0, 20)
WarnKey(pattern)  == "w-" \o Substring(pattern, 0, 20)

\* Faulty variant of KeySeen: every matched pattern counts as already seen.
KeySeenAlways(keys, key) == TRUE
\* self.suppressedErrors.has(key)
KeySeen(keys, key) == key \in keys

\* Faulty variant of AddKey: the key is never recorded.
AddKeyDropped(keys, key) == keys
\* self.suppressedErrors.add(key)
AddKey(keys, key) == keys \cup {key}

\* The loop `for (const pattern of self.suppressPatterns)` of an override, from
\* index i on: forward is FALSE when the loop returned early (message suppressed),
\* keys is suppressedErrors after the loop. warn is TRUE for the console.warn loop.
RECURSIVE SuppressLoop(_, _, _, _, _)
SuppressLoop(msg, patterns, i, keys, warn) ==
    IF i > Len(patterns)
    THEN [forward |-> TRUE, keys |-> keys]
    ELSE IF Includes(msg, patterns[i])
         THEN LET key == IF warn THEN WarnKey(patterns[i]) ELSE ErrorKey(patterns[i])
              IN  IF KeySeen(keys, key)
                  THEN [forward |-> FALSE, keys |-> keys]
                  ELSE SuppressLoop(msg, patterns, i + 1, AddKey(keys, key), warn)
         ELSE SuppressLoop(msg, patterns, i + 1, keys, warn)

\* What reaches the original console function: the argument list, unchanged.
Forward(args) == << args >>

Event(op, args, out) == [op |-> op, args |-> args, out |-> out]

\* Stand-ins for the pictographs of the source, which the TLA+ lexer does not
\* accept inside a string: each is one marker that no other text of the model contains.
CheckMark == "{check}"    \* U+2705
Siren     == "{siren}"    \* U+1F6A8
CrossMark == "{cross}"    \* U+274C
Wrench    == "{wrench}"   \* U+1F527
WarningSign == "{warning}" \* U+26A0 U+FE0F

\* The messages console.log always shows (the `if` of lines 63-65).
ImportantMarkers ==
    << CheckMark, Siren, CrossMark, "Error", "error", "Success", "success" >>

\* Faulty variant of IsImportant: only the pictographs count as important.
IsImportantPictographsOnly(msg) ==
    \E k \in 1..3 : Includes(msg, ImportantMarkers[k])
\* msg.includes(marker) || ... over the seven markers
IsImportant(msg) ==
    \E k \in 1..Len(ImportantMarkers) : Includes(msg, ImportantMarkers[k])

StartsWith(s, prefix) == Len(s) >= Len(prefix) /\ SubSeq(s, 1, Len(prefix)) = prefix

UpperCaseLetters == "ABCDEFGHIJKLMNOPQRSTUVWXYZ"
LowerCaseLetters == "abcdefghijklmnopqrstuvwxyz"
\* The position of the first character c of s at or after position from, 0 when there is none.
IndexOf(s, c, from) ==
    LET hits == { k \in from..Len(s) : SubSeq(s, k, k) = c }
    IN  IF hits = {} THEN 0 ELSE CHOOSE k \in hits : \A m \in hits : k <= m

\* String.prototype.toLowerCase on the letters A-Z.
RECURSIVE ToLowerCase(_)
ToLowerCase(s) ==
    IF Len(s) = 0 THEN ""
    ELSE LET c == SubSeq(s, 1, 1)
             u == IndexOf(UpperCaseLetters, c, 1)
         IN  (IF u = 0 THEN c ELSE SubSeq(LowerCaseLetters, u, u))
                 \o ToLowerCase(SubSeq(s, 2, Len(s)))

\* msg.match(/\[([^\]]+)\]/)?.[1]?.toLowerCase() || '' : the text between the
\* leftmost "[" that has a "]" after it with at least one character in between,
\* and the first "]" after it; '' when the expression does not match.
MatchCategory(msg) ==
    LET closing(i) == IndexOf(msg, "]", i + 1)
        starts == { i \in 1..Len(msg) : SubSeq(msg, i, i) = "[" /\ closing(i) >= i + 2 }
    IN  IF starts = {} THEN ""
        ELSE LET i == CHOOSE k \in starts : \A m \in starts : k <= m
             IN  ToLowerCase(SubSeq(msg, i + 1, closing(i) - 1))

\* The categories the console.log override tests a tag for, in the order of lines 75-78.
GatedCategories == << "booking", "auth", "firebase", "ui" >>

\* The body of the console.log override: TRUE when it reaches orig.log(...args).
LogForwards(msg, production, categories) ==
    IF IsImportant(msg)
    THEN TRUE
    ELSE IF production /\ ~categories.all /\ StartsWith(msg, "[") /\ Includes(msg, "]")
         THEN \A k \in 1..Len(GatedCategories) :
                  ~(Includes(MatchCategory(msg), GatedCategories[k])
                        /\ ~categories[GatedCategories[k]])
         ELSE TRUE

\* What a console.log(...args) call sends to the original console.log, given
\* whether the override is installed and the manager's mode and categories.
LogOut(args, overridden, production, categories) ==
    IF overridden => LogForwards(MessageOf(args), production, categories)
    THEN Forward(args)
    ELSE << >>

\* Argument lists the page passes to console.error / console.warn / console.log.
ErrorArgs ==
    { << >>,
      << "Tracking Prevention A" >>,
      << "Tracking Prevention B" >>,
      << "streetview.js Google Maps" >>,
      << "Google Maps down" >>,
      << "TypeError: x", "detail" >> }
WarnArgs == { << "Tracking Prevention A" >>, << "slow frame" >> }
LogArgs ==
    { << "[Booking] slot 3" >>,
      << "[Auth] user in" >>,
      << "[Firebase] sync", "detail" >>,
      << "[UI] paint" >>,
      << "[Build] done" >>,
      << "[Booking] " \o CheckMark \o " saved" >>,
      << "[Auth] login success" >>,
      << "page ready" >> }

\* console.error(...args): the override while installed, the original after restore().
ConsoleError(args) ==
    /\ Len(events) < MaxEvents
    /\ LET r == IF installed
                THEN SuppressLoop(MessageOf(args), suppressPatterns, 1, suppressedErrors, FALSE)
                ELSE [forward |-> TRUE, keys |-> suppressedErrors]
       IN  /\ suppressedErrors' = r.keys
           /\ events' = Append(events,
                  Event("error", args, IF r.forward THEN Forward(args) ELSE << >>))
    /\ UNCHANGED <<suppressPatterns, productionMode, debugCategories, installed>>

\* console.warn(...args)
ConsoleWarn(args) ==
    /\ Len(events) < MaxEvents
    /\ LET r == IF installed
                THEN SuppressLoop(MessageOf(args), suppressPatterns, 1, suppressedErrors, TRUE)
                ELSE [forward |-> TRUE, keys |-> suppressedErrors]
       IN  /\ suppressedErrors' = r.keys
           /\ events' = Append(events,
                  Event("warn", args, IF r.forward THEN Forward(args) ELSE << >>))
    /\ UNCHANGED <<suppressPatterns, productionMode, debugCategories, installed>>

\* console.log(...args)
ConsoleLog(args) ==
    /\ Len(events) < MaxEvents
    /\ events' = Append(events,
           Event("log", args, LogOut(args, installed, productionMode, debugCategories)))
    /\ UNCHANGED <<suppressedErrors, suppressPatterns, productionMode, debugCategories,
                   installed>>

\* The methods of the object createCleanLogger() returns.
LoggerMethods == {"info", "success", "warning", "error"}

\* The function of originalConsole a logger method calls.
LoggerTarget(method) ==
    IF method = "success" THEN "log"
    ELSE IF method = "warning" THEN "warn"
    ELSE method

\* The text a logger method puts in front of the message.
LoggerPrefix(method) ==
    IF method = "info" THEN "[App] "
    ELSE IF method = "success" THEN CheckMark \o " "
    ELSE IF method = "warning" THEN WarningSign \o " "
    ELSE CrossMark \o " "

\* `${msg}` of the template literal: a call without arguments has msg undefined.
TemplateString(args) == IF Len(args) = 0 THEN "undefined" ELSE args[1]

\* Faulty variant of LoggerOut: logger.error goes through the console.error override.
LoggerOutFiltered(method, args) ==
    IF method = "error" /\ installed
          /\ ~SuppressLoop(LoggerPrefix(method) \o TemplateString(args),
                           suppressPatterns, 1, suppressedErrors, FALSE).forward
    THEN << >>
    ELSE << << LoggerPrefix(method) \o TemplateString(args) >>
               \o (IF Len(args) = 0 THEN << >> ELSE Tail(args)) >>
\* orig.<target>(`<prefix>${msg}`, ...args): the one call the original function receives.
LoggerOut(method, args) ==
    << << LoggerPrefix(method) \o TemplateString(args) >>
          \o (IF Len(args) = 0 THEN << >> ELSE Tail(args)) >>

\* An event of the history for a logger call; `to` names the original function.
LoggerEvent(method, args) ==
    [op |-> "logger." \o method, args |-> args, to |-> LoggerTarget(method),
     out |-> LoggerOut(method, args)]

\* Argument lists the page passes to the logger's methods.
LoggerArgs ==
    { << >>,
      << "Tracking Prevention A" >>,
      << "[Booking] slot 3", "detail" >> }

\* logger.info / logger.success / logger.warning / logger.error (msg, ...args)
LoggerCall(method, args) ==
    /\ Len(events) < MaxEvents
    /\ events' = Append(events, LoggerEvent(method, args))
    /\ UNCHANGED <<suppressedErrors, suppressPatterns, productionMode, debugCategories,
                   installed>>

\* reset()
ConsoleReset ==
    /\ Len(events) < MaxEvents
    /\ suppressedErrors' = {}
    /\ events' = Append(events, Event("reset", << >>, << >>))
    /\ UNCHANGED <<suppressPatterns, productionMode, debugCategories, installed>>

\* restore(): console.error/warn/log/info are the originals again.
Restore ==
    /\ Len(events) < MaxEvents
    /\ installed' = FALSE
    /\ events' = Append(events, Event("restore", << >>, << >>))
    /\ UNCHANGED <<suppressedErrors, suppressPatterns, productionMode, debugCategories>>

\* this.debugCategories.all = value
WithAll(categories, value) == [categories EXCEPT !.all = value]

\* if (this.debugCategories.hasOwnProperty(category)) this.debugCategories[category] = true
WithCategory(categories, category) ==
    IF category \in DOMAIN categories
    THEN [categories EXCEPT ![category] = TRUE]
    ELSE categories

\* Faulty variant of EnableVerboseMode: the suppress patterns are kept.
EnableVerboseModeKeepsPatterns ==
    /\ Len(events) < MaxEvents
    /\ productionMode' = FALSE
    /\ debugCategories' = WithAll(debugCategories, TRUE)
    /\ suppressedErrors' = {}
    /\ events' = Append(events, Event("verbose", << >>,
           LogOut(<< Wrench \o " Verbose logging enabled" >>,
                  installed, productionMode', debugCategories')))
    /\ UNCHANGED <<suppressPatterns, installed>>
\* enableVerboseMode(); the event's output is what its console.log call sends on.
EnableVerboseMode ==
    /\ Len(events) < MaxEvents
    /\ productionMode' = FALSE
    /\ debugCategories' = WithAll(debugCategories, TRUE)
    /\ suppressedErrors' = {}
    /\ suppressPatterns' = << >>
    /\ events' = Append(events, Event("verbose", << >>,
           LogOut(<< Wrench \o " Verbose logging enabled" >>,
                  installed, productionMode', debugCategories')))
    /\ UNCHANGED installed

\* enableProductionMode()
EnableProductionMode ==
    /\ Len(events) < MaxEvents
    /\ productionMode' = TRUE
    /\ debugCategories' = WithAll(debugCategories, FALSE)
    /\ events' = Append(events, Event("production", << >>,
           LogOut(<< Wrench \o " Production logging enabled (minimal logs)" >>,
                  installed, productionMode', debugCategories')))
    /\ UNCHANGED <<suppressedErrors, suppressPatterns, installed>>

\* enableDebugCategory(category)
EnableDebugCategory(category) ==
    /\ Len(events) < MaxEvents
    /\ debugCategories' = WithCategory(debugCategories, category)
    /\ events' = Append(events, Event("debug", << category >>,
           IF category \in DOMAIN debugCategories
           THEN LogOut(<< Wrench \o " Debug enabled for: " \o category >>,
                       installed, productionMode, debugCategories')
           ELSE << >>))
    /\ UNCHANGED <<suppressedErrors, suppressPatterns, productionMode, installed>>

\* The state after `new ConsoleManager()`.
InitConsole ==
    /\ suppressedErrors = {}
    /\ suppressPatterns = InitialSuppressPatterns
    /\ productionMode = TRUE
    /\ debugCategories = InitialDebugCategories
    /\ installed = TRUE
    /\ events = << >>

(***************************************************************************)
(* AdaptivePerformanceSystem: classification                               *)
(***************************************************************************)
\* The browser as the detector sees it.
\*   connection          navigator.connection: "undefined", or its effectiveType
\*   networkThrows       reading the connection / timing API throws
\*   timing              window.performance.timing (loadEventEnd is 0 before the load event)
\*   hardwareConcurrency navigator.hardwareConcurrency, 0 when undefined
\*   deviceMemory        navigator.deviceMemory, 0 when undefined
\*   isMobile            the user-agent test
\*   hardwareThrows      reading the hardware properties throws
\*   memory              performance.memory exists
\*   PerformanceObserver 'PerformanceObserver' in window
EffectiveTypes == {"4g", "wifi", "3g", "2g", "slow-2g", "unknown"}
LoadTimes == {1000, 1500, 1501, 3000, 3001}

\* performance.timing while the page is still loading (loadEventEnd is 0)
TimingAtStart(present) == [present |-> present, navigationStart |-> 1000, loadEventEnd |-> 0]

NetworkCases ==
    { [connection |-> c, networkThrows |-> FALSE, timing |-> TimingAtStart(TRUE)] :
        c \in EffectiveTypes }
    \cup { [connection |-> "undefined", networkThrows |-> FALSE, timing |-> TimingAtStart(tp)] :
             tp \in BOOLEAN }
    \cup { [connection |-> "undefined", networkThrows |-> TRUE, timing |-> TimingAtStart(TRUE)] }

Hardware(hc, dm, mob, ht) ==
    [hardwareConcurrency |-> hc, deviceMemory |-> dm, isMobile |-> mob, hardwareThrows |-> ht]

HardwareCases ==
    { Hardware(0, 0, FALSE, FALSE), Hardware(4, 0, FALSE, FALSE), Hardware(0, 8, FALSE, FALSE),
      Hardware(8, 8, FALSE, FALSE), Hardware(8, 8, TRUE, FALSE), Hardware(2, 4, FALSE, FALSE),
      Hardware(4, 2, FALSE, FALSE), Hardware(1, 8, FALSE, FALSE), Hardware(0, 0, FALSE, TRUE) }

Browser(n, h, mem, po) ==
    [connection |-> n.connection, networkThrows |-> n.networkThrows, timing |-> n.timing,
     hardwareConcurrency |-> h.hardwareConcurrency, deviceMemory |-> h.deviceMemory,
     isMobile |-> h.isMobile, hardwareThrows |-> h.hardwareThrows,
     memory |-> mem, PerformanceObserver |-> po]

Browsers ==
    { Browser(n, h, mem, po) :
        n \in NetworkCases, h \in HardwareCases, mem \in BOOLEAN, po \in BOOLEAN }

\* A typical desktop browser, used where the classification is not under study.
DesktopBrowser ==
    Browser([connection |-> "4g", networkThrows |-> FALSE, timing |-> TimingAtStart(TRUE)],
            Hardware(8, 8, FALSE, FALSE), TRUE, TRUE)

\* x || d for a numeric property (undefined and 0 are falsy)
OrElse(x, d) == IF x = 0 THEN d ELSE x

\* Faulty variant of ByEffectiveType: the fast and slow branches exchanged.
ByEffectiveTypeSwapped(effectiveType, current) ==
    IF effectiveType \in {"4g", "wifi"} THEN "slow"
    ELSE IF effectiveType = "3g" THEN "normal"
    ELSE IF effectiveType \in {"2g", "slow-2g"} THEN "fast"
    ELSE current
\* the if / else-if chain on effectiveType; no branch taken leaves networkSpeed as it is
ByEffectiveType(effectiveType, current) ==
    IF effectiveType \in {"4g", "wifi"} THEN "fast"
    ELSE IF effectiveType = "3g" THEN "normal"
    ELSE IF effectiveType \in {"2g", "slow-2g"} THEN "slow"
    ELSE current

\* the fallback on timing.loadEventEnd - timing.navigationStart
ByLoadTime(timing) ==
    LET pageLoadTime == timing.loadEventEnd - timing.navigationStart
    IN  IF pageLoadTime > 3000 THEN "slow"
        ELSE IF pageLoadTime > 1500 THEN "normal"
        ELSE "fast"

\* detectNetworkSpeed(): the value of this.networkSpeed after the call
DetectNetworkSpeed(b, current) ==
    IF b.networkThrows THEN "normal"
    ELSE IF b.connection # "undefined" THEN ByEffectiveType(b.connection, current)
    ELSE IF b.timing.present THEN ByLoadTime(b.timing)
    ELSE current

\* Faulty variant of DetectDeviceCapability: 2 cores assumed when the count is
\* missing, and 'low' from the catch block.
DetectDeviceCapabilityMidpoint(b) ==
    IF b.hardwareThrows THEN "low"
    ELSE LET cores == OrElse(b.hardwareConcurrency, 2)
             ram   == OrElse(b.deviceMemory, 4)
         IN  IF cores >= 4 /\ ram >= 8 /\ ~b.isMobile THEN "high"
             ELSE IF cores >= 2 /\ ram >= 4 THEN "medium"
             ELSE "low"
\* detectDeviceCapability(): the value of this.deviceCapability after the call
DetectDeviceCapability(b) ==
    IF b.hardwareThrows THEN "medium"
    ELSE LET cores == OrElse(b.hardwareConcurrency, 1)
             ram   == OrElse(b.deviceMemory, 4)
         IN  IF cores >= 4 /\ ram >= 8 /\ ~b.isMobile THEN "high"
             ELSE IF cores >= 2 /\ ram >= 4 THEN "medium"
             ELSE "low"

(***************************************************************************)
(* AdaptivePerformanceSystem: getTimeout                                   *)
(***************************************************************************)
baseTimeouts ==
    [loginCheck |-> 8000, userFetch |-> 8000, warningPanel |-> 5000, autoCancel |-> 5000,
     bookingsLoad |-> 15000, notifications |-> 5000, firebaseUser |-> 45000,
     debounce |-> 300, scrollDelay |-> 150]

\* Property names every object literal inherits from Object.prototype.
ObjectPrototypeKeys == {"constructor", "toString", "valueOf", "hasOwnProperty"}

Number(n)  == [t |-> "number", v |-> n]
NaN        == [t |-> "NaN", v |-> 0]
Undefined  == [t |-> "undefined", v |-> 0]
Inherited  == [t |-> "function", v |-> 0]

\* this.baseTimeouts[operation]: an own property, else one inherited from
\* Object.prototype, else undefined
BaseTimeoutsGet(operation) ==
    IF operation \in DOMAIN baseTimeouts THEN Number(baseTimeouts[operation])
    ELSE IF operation \in ObjectPrototypeKeys THEN Inherited
    ELSE Undefined

Truthy(x) == x.t = "function" \/ (x.t = "number" /\ x.v # 0)

\* The multipliers as fractions <<numerator, denominator>>.
networkMultiplier(ns) ==
    IF ns = "fast" THEN <<4, 5>> ELSE IF ns = "slow" THEN <<2, 1>> ELSE <<1, 1>>
deviceMultiplier(dc) ==
    IF dc = "high" THEN <<4, 5>> ELSE IF dc = "low" THEN <<3, 2>> ELSE <<1, 1>>

\* Math.round(p / q) for p >= 0, q > 0: floor(p/q + 1/2)
Round(p, q) == (2 * p + q) \div (2 * q)

\* getTimeout(operation). The products of the base timeouts are far from a
\* half-integer, so the double arithmetic rounds as the exact product does. A
\* non-number base (an inherited function) multiplies to NaN.
GetTimeout(operation, ns, dc) ==
    LET got         == BaseTimeoutsGet(operation)
        baseTimeout == IF Truthy(got) THEN got ELSE Number(5000)
        n           == networkMultiplier(ns)
        d           == deviceMultiplier(dc)
    IN  IF baseTimeout.t = "number"
        THEN Number(Round(baseTimeout.v * n[1] * d[1], n[2] * d[2]))
        ELSE NaN

OperationNames == DOMAIN baseTimeouts \cup {"customOp", "constructor", "toString"}

(***************************************************************************)
(* AdaptivePerformanceSystem: init, monitoring, reset                      *)
(***************************************************************************)
maxMetricsHistory == 100

\* Faulty variant of RecordMetric: nothing is ever evicted.
RecordMetricUnbounded(metrics, metric) == Append(metrics, metric)
\* recordMetric(metric): push, then shift when over maxMetricsHistory
RecordMetric(metrics, metric) ==
    LET pushed == Append(metrics, metric)
    IN  IF Len(pushed) > maxMetricsHistory THEN Tail(pushed) ELSE pushed

\* One delivered entry: every live observer's callback records it.
RECURSIVE RecordBy(_, _, _)
RecordBy(metrics, metric, n) ==
    IF n = 0 THEN metrics ELSE RecordBy(RecordMetric(metrics, metric), metric, n - 1)

\* setupPerformanceMonitoring(): one more observer when the API exists
SetupPerformanceMonitoring(b, obs) == IF b.PerformanceObserver THEN obs + 1 ELSE obs

\* setupMemoryMonitoring(): one more interval timer when performance.memory exists
SetupMemoryMonitoring(b, timers) == IF b.memory THEN timers + 1 ELSE timers

\* init(): detectNetworkSpeed, detectDeviceCapability, the two setups. Its
\* console.log calls carry no suppress pattern and change no state.
PerfInit(ns) ==
    /\ networkSpeed' = DetectNetworkSpeed(browser', ns)
    /\ deviceCapability' = DetectDeviceCapability(browser')
    /\ observers' = SetupPerformanceMonitoring(browser', observers)
    /\ memoryTimers' = SetupMemoryMonitoring(browser', memoryTimers)
    /\ atInit' = [browser |-> browser', networkSpeed |-> networkSpeed',
                  deviceCapability |-> deviceCapability']

\* reset()
PerfReset ==
    /\ memoryTimers < MaxTimers /\ observers < MaxTimers
    /\ performanceMetrics' = << >>
    /\ UNCHANGED browser
    /\ PerfInit(networkSpeed)
    /\ UNCHANGED <<lastTimeout, nextEntry>>

\* Heap usage (usedJSHeapSize / jsHeapSizeLimit) in percent, as one check reads it.
MemoryUsages == {10, 49, 50, 70, 90, 91, 100}

\* Faulty variant of MemoryChecked: usage of exactly 0.9 already degrades.
MemoryCheckedFromNinety(dc, memoryUsage, b) ==
    IF memoryUsage >= 90 THEN "low"
    ELSE IF memoryUsage < 50 /\ dc = "low" THEN DetectDeviceCapability(b)
    ELSE dc
\* Faulty variant of MemoryChecked: the upgrade sets 'high' instead of re-detecting.
MemoryCheckedUpgradesToHigh(dc, memoryUsage, b) ==
    IF memoryUsage > 90 THEN "low"
    ELSE IF memoryUsage < 50 /\ dc = "low" THEN "high"
    ELSE dc
\* the setInterval callback: deviceCapability after a check that reads memoryUsage
MemoryChecked(dc, memoryUsage, b) ==
    IF memoryUsage > 90 THEN "low"
    ELSE IF memoryUsage < 50 /\ dc = "low" THEN DetectDeviceCapability(b)
    ELSE dc

\* One firing of one memory-check timer.
MemoryCheck(memoryUsage) ==
    /\ memoryTimers > 0
    /\ deviceCapability' = MemoryChecked(deviceCapability, memoryUsage, browser)
    /\ UNCHANGED <<networkSpeed, performanceMetrics, memoryTimers, observers, browser,
                   atInit, lastTimeout, nextEntry>>

\* The browser delivers one resource entry to the observers; at most limit
\* entries are delivered. The entry's name is its number in the order of arrival.
ResourceEntryUpTo(limit) ==
    /\ observers > 0
    /\ nextEntry < limit
    /\ nextEntry' = nextEntry + 1
    /\ performanceMetrics' =
           RecordBy(performanceMetrics, [type |-> "resource", name |-> nextEntry + 1], observers)
    /\ UNCHANGED <<networkSpeed, deviceCapability, memoryTimers, observers, browser,
                   atInit, lastTimeout>>

ResourceEntry == ResourceEntryUpTo(MaxEntries)

\* The connection's effectiveType changes (the browser's doing, not the page's).
NetworkChanges(effectiveType) ==
    /\ browser.connection # "undefined"
    /\ browser.connection # effectiveType
    /\ browser' = [browser EXCEPT !.connection = effectiveType]
    /\ UNCHANGED <<networkSpeed, deviceCapability, performanceMetrics, memoryTimers,
                   observers, atInit, lastTimeout, nextEntry>>

\* The load event ends: timing.loadEventEnd gets its value.
PageLoadCompletes(loadTime) ==
    /\ browser.timing.present
    /\ browser.timing.loadEventEnd = 0
    /\ browser' = [browser EXCEPT
                     !.timing.loadEventEnd = browser.timing.navigationStart + loadTime]
    /\ UNCHANGED <<networkSpeed, deviceCapability, performanceMetrics, memoryTimers,
                   observers, atInit, lastTimeout, nextEntry>>

\* A call of getTimeout(operation); lastTimeout records the call and what it returned.
GetTimeoutCall(operation) ==
    /\ lastTimeout' = [operation |-> operation, networkSpeed |-> networkSpeed,
                       deviceCapability |-> deviceCapability,
                       result |-> GetTimeout(operation, networkSpeed, deviceCapability)]
    /\ UNCHANGED <<networkSpeed, deviceCapability, performanceMetrics, memoryTimers,
                   observers, browser, atInit, nextEntry>>

NoTimeoutYet ==
    [operation |-> "", networkSpeed |-> "", deviceCapability |-> "", result |-> Undefined]

\* The state after `new AdaptivePerformanceSystem()` in browser b: the constructor's
\* 'normal' / 'medium', then init().
InitPerf(b) ==
    /\ browser = b
    /\ networkSpeed = DetectNetworkSpeed(b, "normal")
    /\ deviceCapability = DetectDeviceCapability(b)
    /\ observers = SetupPerformanceMonitoring(b, 0)
    /\ memoryTimers = SetupMemoryMonitoring(b, 0)
    /\ atInit = [browser |-> b, networkSpeed |-> networkSpeed,
                 deviceCapability |-> deviceCapability]
    /\ performanceMetrics = << >>
    /\ lastTimeout = NoTimeoutYet
    /\ nextEntry = 0

(***************************************************************************)
(* AdaptivePerformanceSystem: executeWithRetry                             *)
(***************************************************************************)
retryAttempts == 3
retryBackoffMultiplier == <<3, 2>>   \* 1.5

\* What one invocation of the caller's operation does: resolve with a value, or
\* reject / throw with a value. "null" and "undefined" are the JavaScript values
\* null and undefined, which have no properties.
Successes == {"value1", "value2"}
Failures  == {"Error: e1", "Error: e2", "null", "undefined"}
Outcomes  == { [ok |-> TRUE, v |-> v] : v \in Successes }
             \cup { [ok |-> FALSE, v |-> e] : e \in Failures }

\* Whether `error.message` can be read: on null or undefined it throws a TypeError.
CanReadMessage(error) == error \notin {"null", "undefined"}

RECURSIVE Pow(_, _)
Pow(b, e) == IF e = 0 THEN 1 ELSE b * Pow(b, e - 1)

\* Faulty variant of BackoffDelay: the delay grows by 1000 ms per attempt.
BackoffDelayLinear(attempt) == 1000 * attempt
\* Faulty variant of BackoffDelay: the delay is multiplied by the two multipliers.
BackoffDelayScaled(attempt) ==
    LET n == networkMultiplier(networkSpeed)
        d == deviceMultiplier(deviceCapability)
    IN  Round(1000 * Pow(retryBackoffMultiplier[1], attempt - 1) * n[1] * d[1],
              Pow(retryBackoffMultiplier[2], attempt - 1) * n[2] * d[2])
\* Math.round(1000 * Math.pow(this.retryBackoffMultiplier, attempt - 1))
BackoffDelay(attempt) ==
    Round(1000 * Pow(retryBackoffMultiplier[1], attempt - 1),
          Pow(retryBackoffMultiplier[2], attempt - 1))

\* executeWithRetry(operation, operationName, maxAttempts) up to its first await:
\* attempt 1 invokes the operation. script[i] is what the operation's i-th
\* invocation does. operationName carries no suppress pattern, so the console
\* calls change no ConsoleManager state.
ExecuteWithRetry(script, maxAttempts) ==
    /\ rPc \in {"idle", "resolved", "rejected"}
    /\ rScript' = script
    /\ rMax' = maxAttempts
    /\ rAttempt' = 1
    /\ rInvocations' = 1
    /\ rDelays' = << >>
    /\ rLastError' = "undefined"
    /\ rResult' = "pending"
    /\ rPc' = "awaitOperation"

\* `await operation()` settles: return on success; otherwise the catch block, then
\* either the backoff wait or, after the last attempt, `throw lastError`.
OperationSettles ==
    /\ rPc = "awaitOperation"
    /\ LET o == rScript[rInvocations]
       IN  IF o.ok
           THEN /\ rPc' = "resolved"
                /\ rResult' = o.v
                /\ UNCHANGED <<rLastError, rDelays>>
           ELSE /\ rLastError' = o.v
                /\ IF ~CanReadMessage(o.v)
                   THEN \* console.warn(..., error.message) throws inside the catch block
                        /\ rPc' = "rejected"
                        /\ rResult' = "TypeError"
                        /\ UNCHANGED rDelays
                   ELSE IF rAttempt < rMax
                   THEN /\ rDelays' = Append(rDelays, BackoffDelay(rAttempt))
                        /\ rPc' = "awaitDelay"
                        /\ UNCHANGED rResult
                   ELSE /\ rPc' = "rejected"
                        /\ rResult' = o.v
                        /\ UNCHANGED rDelays
    /\ UNCHANGED <<rScript, rMax, rAttempt, rInvocations>>

\* The backoff timer fires: attempt++ and the next invocation of the operation.
DelayElapses ==
    /\ rPc = "awaitDelay"
    /\ rAttempt' = rAttempt + 1
    /\ rInvocations' = rInvocations + 1
    /\ rPc' = "awaitOperation"
    /\ UNCHANGED <<rScript, rMax, rDelays, rLastError, rResult>>

InitRetry ==
    /\ rPc = "idle"
    /\ rScript = << >>
    /\ rMax = 0
    /\ rAttempt = 0
    /\ rInvocations = 0
    /\ rDelays = << >>
    /\ rLastError = "undefined"
    /\ rResult = "pending"

(***************************************************************************)
(* AdaptivePerformanceSystem: executeWithTimeout                           *)
(***************************************************************************)
Pending == [state |-> "pending", v |-> ""]
Fulfilled(v) == [state |-> "fulfilled", v |-> v]
Rejected(v)  == [state |-> "rejected", v |-> v]

\* `${timeout}` in a template literal
NumberToString(x) == IF x.t = "number" THEN ToString(x.v) ELSE "NaN"

\* new Error(`${operationName} timeout after ${timeout}ms`)
TimeoutError(operationName, timeout) ==
    operationName \o " timeout after " \o NumberToString(timeout) \o "ms"

\* Faulty variant of RaceSettle: a later settlement overwrites the outcome.
RaceSettleLastWins(race, outcome) == outcome
\* Promise.race: the returned promise takes the outcome of the first input to
\* settle; a later settlement of another input leaves it as it is.
RaceSettle(race, outcome) == IF race.state = "pending" THEN outcome ELSE race

\* How the caller's operation behaves when called: throw synchronously, return an
\* already-settled result, or return a promise that settles later.
OperationKinds == {"throws", "immediate", "later"}
OperationOutcomes == {Fulfilled("value1"), Rejected("Error: e1")}

\* executeWithTimeout(operation, operationName) up to the return of Promise.race.
ExecuteWithTimeout(operationName, kind) ==
    /\ tOp.state # "pending" /\ tTimer # "armed"
    /\ tName' = operationName
    /\ tTimeout' = GetTimeout(operationName, networkSpeed, deviceCapability)
    /\ IF kind = "throws"
       THEN \* operation() throws before the timer is created
            /\ tOp' = Rejected("Error: e1")
            /\ tTimer' = "none"
            /\ tRace' = Rejected("Error: e1")
            /\ tFirst' = "operation"
            /\ tSettles' = 1
       ELSE IF kind = "immediate"
       THEN /\ tOp' = Fulfilled("value1")
            /\ tTimer' = "armed"
            /\ tRace' = RaceSettle(Pending, Fulfilled("value1"))
            /\ tFirst' = "operation"
            /\ tSettles' = 1
       ELSE /\ tOp' = Pending
            /\ tTimer' = "armed"
            /\ tRace' = Pending
            /\ tFirst' = "none"
            /\ tSettles' = 0

\* The operation's promise settles.
OperationCompletes(outcome) ==
    /\ tOp.state = "pending"
    /\ tOp' = outcome
    /\ tRace' = RaceSettle(tRace, outcome)
    /\ tSettles' = IF tRace' # tRace THEN tSettles + 1 ELSE tSettles
    /\ tFirst' = IF tFirst = "none" THEN "operation" ELSE tFirst
    /\ UNCHANGED <<tName, tTimeout, tTimer>>

\* The setTimeout callback runs: reject(new Error(...)).
TimerExpires ==
    /\ tTimer = "armed"
    /\ tTimer' = "fired"
    /\ tRace' = RaceSettle(tRace, Rejected(TimeoutError(tName, tTimeout)))
    /\ tSettles' = IF tRace' # tRace THEN tSettles + 1 ELSE tSettles
    /\ tFirst' = IF tFirst = "none" THEN "timer" ELSE tFirst
    /\ UNCHANGED <<tName, tTimeout, tOp>>

InitTimeout ==
    /\ tName = ""
    /\ tTimeout = Undefined
    /\ tOp = [state |-> "none", v |-> ""]
    /\ tTimer = "none"
    /\ tRace = [state |-> "none", v |-> ""]
    /\ tFirst = "none"
    /\ tSettles = 0

(***************************************************************************)
(* Specifications, one per subsystem                                       *)
(***************************************************************************)
\* The ConsoleManager under console.error / console.warn / console.log calls and
\* its operations.
InitConsoleSpec == InitConsole /\ InitPerf(DesktopBrowser) /\ InitRetry /\ InitTimeout
NextConsole ==
    \/ (\E args \in ErrorArgs : ConsoleError(args)) /\ UNCHANGED <<perfVars, retryVars, timeoutVars>>
    \/ (\E args \in WarnArgs : ConsoleWarn(args)) /\ UNCHANGED <<perfVars, retryVars, timeoutVars>>
    \/ (\E args \in { << "[Booking] slot 3" >>, << "page ready" >> } : ConsoleLog(args))
          /\ UNCHANGED <<perfVars, retryVars, timeoutVars>>
    \/ ConsoleReset /\ UNCHANGED <<perfVars, retryVars, timeoutVars>>
    \/ Restore /\ UNCHANGED <<perfVars, retryVars, timeoutVars>>
    \/ EnableVerboseMode /\ UNCHANGED <<perfVars, retryVars, timeoutVars>>
    \/ EnableProductionMode /\ UNCHANGED <<perfVars, retryVars, timeoutVars>>
    \/ (\E c \in {"booking", "all", "verbose"} : EnableDebugCategory(c))
          /\ UNCHANGED <<perfVars, retryVars, timeoutVars>>
SpecConsole == InitConsoleSpec /\ [][NextConsole]_vars

\* The clean logger next to the overrides and the operations that change what
\* the overrides filter.
NextLogger ==
    \/ (\E method \in LoggerMethods : \E args \in LoggerArgs : LoggerCall(method, args))
          /\ UNCHANGED <<perfVars, retryVars, timeoutVars>>
    \/ (\E args \in { << "Tracking Prevention A" >>, << "Tracking Prevention B" >> } :
            ConsoleError(args))
          /\ UNCHANGED <<perfVars, retryVars, timeoutVars>>
    \/ ConsoleWarn(<< "Tracking Prevention A" >>) /\ UNCHANGED <<perfVars, retryVars, timeoutVars>>
    \/ ConsoleLog(<< "[Booking] slot 3" >>) /\ UNCHANGED <<perfVars, retryVars, timeoutVars>>
    \/ EnableDebugCategory("booking") /\ UNCHANGED <<perfVars, retryVars, timeoutVars>>
    \/ EnableVerboseMode /\ UNCHANGED <<perfVars, retryVars, timeoutVars>>
    \/ EnableProductionMode /\ UNCHANGED <<perfVars, retryVars, timeoutVars>>
    \/ ConsoleReset /\ UNCHANGED <<perfVars, retryVars, timeoutVars>>
    \/ Restore /\ UNCHANGED <<perfVars, retryVars, timeoutVars>>
SpecLogger == InitConsoleSpec /\ [][NextLogger]_vars

\* The console.log override under every log message of LogArgs and the operations
\* that change the mode, the categories and the override.
DebugCategoryArgs == DOMAIN InitialDebugCategories \cup {"verbose"}
NextLog ==
    \/ (\E args \in LogArgs : ConsoleLog(args)) /\ UNCHANGED <<perfVars, retryVars, timeoutVars>>
    \/ (\E c \in DebugCategoryArgs : EnableDebugCategory(c))
          /\ UNCHANGED <<perfVars, retryVars, timeoutVars>>
    \/ EnableVerboseMode /\ UNCHANGED <<perfVars, retryVars, timeoutVars>>
    \/ EnableProductionMode /\ UNCHANGED <<perfVars, retryVars, timeoutVars>>
    \/ ConsoleReset /\ UNCHANGED <<perfVars, retryVars, timeoutVars>>
    \/ Restore /\ UNCHANGED <<perfVars, retryVars, timeoutVars>>
SpecLog == InitConsoleSpec /\ [][NextLog]_vars

\* The classification in every modelled browser, under resets, memory checks,
\* resource entries and changes of the browser's own signals.
InitClassifySpec == InitConsole /\ (\E b \in Browsers : InitPerf(b)) /\ InitRetry /\ InitTimeout
NextClassify ==
    \/ PerfReset /\ UNCHANGED <<consoleVars, retryVars, timeoutVars>>
    \/ (\E u \in MemoryUsages : MemoryCheck(u)) /\ UNCHANGED <<consoleVars, retryVars, timeoutVars>>
    \/ ResourceEntry /\ UNCHANGED <<consoleVars, retryVars, timeoutVars>>
    \/ (\E e \in {"4g", "2g"} : NetworkChanges(e)) /\ UNCHANGED <<consoleVars, retryVars, timeoutVars>>
    \/ (\E t \in LoadTimes : PageLoadCompletes(t)) /\ UNCHANGED <<consoleVars, retryVars, timeoutVars>>
SpecClassify == InitClassifySpec /\ [][NextClassify]_vars

\* getTimeout for every operation name, in every classification the browsers yield
\* and memory checks change.
NextGetTimeout ==
    \/ (\E op \in OperationNames : GetTimeoutCall(op)) /\ UNCHANGED <<consoleVars, retryVars, timeoutVars>>
    \/ (\E u \in {10, 100} : MemoryCheck(u)) /\ UNCHANGED <<consoleVars, retryVars, timeoutVars>>
SpecGetTimeout == InitClassifySpec /\ [][NextGetTimeout]_vars

\* One executeWithRetry call at a time, for every script of operation outcomes.
MaxAttemptsValues == 1..MaxAttempts \cup {retryAttempts}
InitRetrySpec == InitConsole /\ InitPerf(DesktopBrowser) /\ InitRetry /\ InitTimeout
NextRetry ==
    \/ (\E m \in MaxAttemptsValues : \E script \in [1..m -> Outcomes] : ExecuteWithRetry(script, m))
          /\ UNCHANGED <<consoleVars, perfVars, timeoutVars>>
    \/ OperationSettles /\ UNCHANGED <<consoleVars, perfVars, timeoutVars>>
    \/ DelayElapses /\ UNCHANGED <<consoleVars, perfVars, timeoutVars>>
SpecRetry == InitRetrySpec /\ [][NextRetry]_vars

\* executeWithRetry in every classification, with operations that fail a number
\* of times and then succeed, keep failing, or fail with null.
BackoffScripts(m) ==
    { [i \in 1..m |-> IF i <= f THEN [ok |-> FALSE, v |-> "Error: e1"] ELSE last] :
          f \in 0..m,
          last \in { [ok |-> TRUE, v |-> "value1"], [ok |-> FALSE, v |-> "null"] } }
NextBackoff ==
    \/ (\E m \in 1..MaxBackoffAttempts : \E script \in BackoffScripts(m) :
            ExecuteWithRetry(script, m))
          /\ UNCHANGED <<consoleVars, perfVars, timeoutVars>>
    \/ OperationSettles /\ UNCHANGED <<consoleVars, perfVars, timeoutVars>>
    \/ DelayElapses /\ UNCHANGED <<consoleVars, perfVars, timeoutVars>>
SpecBackoff == InitClassifySpec /\ [][NextBackoff]_vars

\* The metrics history of a desktop browser under enough resource entries to
\* fill it, and resets.
NextMetrics ==
    \/ ResourceEntryUpTo(MaxMetricEntries) /\ UNCHANGED <<consoleVars, retryVars, timeoutVars>>
    \/ PerfReset /\ UNCHANGED <<consoleVars, retryVars, timeoutVars>>
SpecMetrics == InitConsoleSpec /\ [][NextMetrics]_vars

\* One executeWithTimeout call at a time, in every classification.
NextTimeout ==
    \/ (\E name \in {"bookingsLoad", "customOp", "constructor"} : \E k \in OperationKinds :
            ExecuteWithTimeout(name, k))
          /\ UNCHANGED <<consoleVars, perfVars, retryVars>>
    \/ (\E o \in OperationOutcomes : OperationCompletes(o)) /\ UNCHANGED <<consoleVars, perfVars, retryVars>>
    \/ TimerExpires /\ UNCHANGED <<consoleVars, perfVars, retryVars>>
SpecTimeout == InitClassifySpec /\ [][NextTimeout]_vars

\* The AdaptivePerformanceSystem as a whole, with a few inputs per operation: the
\* classification events interleaved with getTimeout, executeWithRetry and
\* executeWithTimeout calls. (The ConsoleManager shares no state with it.)
PageBrowsers ==
    { b \in Browsers :
        /\ b.memory /\ b.PerformanceObserver /\ ~b.hardwareThrows
        /\ b.connection \in {"4g", "undefined"} /\ b.timing.present
        /\ b.hardwareConcurrency \in {2, 8} /\ ~b.isMobile }
Init == InitConsole /\ (\E b \in PageBrowsers : InitPerf(b)) /\ InitRetry /\ InitTimeout
Next ==
    \/ PerfReset /\ UNCHANGED <<consoleVars, retryVars, timeoutVars>>
    \/ (\E u \in {10, 100} : MemoryCheck(u)) /\ UNCHANGED <<consoleVars, retryVars, timeoutVars>>
    \/ ResourceEntry /\ UNCHANGED <<consoleVars, retryVars, timeoutVars>>
    \/ NetworkChanges("2g") /\ UNCHANGED <<consoleVars, retryVars, timeoutVars>>
    \/ PageLoadCompletes(3001) /\ UNCHANGED <<consoleVars, retryVars, timeoutVars>>
    \/ GetTimeoutCall("bookingsLoad") /\ UNCHANGED <<consoleVars, retryVars, timeoutVars>>
    \/ ExecuteWithRetry(<< [ok |-> FALSE, v |-> "Error: e1"], [ok |-> TRUE, v |-> "value1"] >>, 2)
          /\ UNCHANGED <<consoleVars, perfVars, timeoutVars>>
    \/ OperationSettles /\ UNCHANGED <<consoleVars, perfVars, timeoutVars>>
    \/ DelayElapses /\ UNCHANGED <<consoleVars, perfVars, timeoutVars>>
    \/ ExecuteWithTimeout("bookingsLoad", "later") /\ UNCHANGED <<consoleVars, perfVars, retryVars>>
    \/ OperationCompletes(Fulfilled("value1")) /\ UNCHANGED <<consoleVars, perfVars, retryVars>>
    \/ TimerExpires /\ UNCHANGED <<consoleVars, perfVars, retryVars>>
Spec == Init /\ [][Next]_vars

(***************************************************************************)
(* Properties: executeWithRetry (under SpecRetry)                          *)
(***************************************************************************)
RetrySettled == rPc \in {"resolved", "rejected"}

\* The operation fails on its first f invocations and succeeds on invocation f+1.
FailsThenSucceeds(script, f) ==
    /\ f < Len(script)
    /\ \A i \in 1..f : ~script[i].ok
    /\ script[f + 1].ok

AlwaysFails(script) == \A i \in 1..Len(script) : ~script[i].ok

\* C1: when the operation fails on its first f < maxAttempts invocations and
\* succeeds on invocation f+1, the settled call has resolved with that success
\* value after exactly f+1 invocations and exactly f inter-attempt delays.
C1_ResolvesAfterFailures ==
    \A f \in 0..(rMax - 1) :
        (RetrySettled /\ FailsThenSucceeds(rScript, f)) =>
            /\ rPc = "resolved"
            /\ rResult = rScript[f + 1].v
            /\ rInvocations = f + 1
            /\ Len(rDelays) = f

\* C2: when the operation always fails, the settled call has rejected with the
\* error of the maxAttempts-th invocation after exactly maxAttempts invocations,
\* with no delay after the last failed attempt.
C2_RejectsWithLastError ==
    (RetrySettled /\ AlwaysFails(rScript)) =>
        /\ rPc = "rejected"
        /\ rResult = rScript[rMax].v
        /\ rInvocations = rMax
        /\ Len(rDelays) = rMax - 1

\* C3: whatever the operation rejects with, the call rejects only once all
\* maxAttempts attempts are used up; an earlier failure is swallowed.
C3_RejectsOnlyWhenExhausted ==
    rPc = "rejected" => rAttempt = rMax

(***************************************************************************)
(* Properties: executeWithTimeout (under SpecTimeout)                      *)
(***************************************************************************)
\* C4: the promise executeWithTimeout returns settles at most once, with the
\* outcome of whichever of the operation and the timer came first: the
\* operation's own outcome, or the rejection '<name> timeout after <t>ms' with
\* t = getTimeout(name); once the timer has expired it is settled, and the later
\* of the two events leaves the settled outcome as it is.
C4_RaceTakesFirstOutcome ==
    /\ tSettles <= 1
    /\ (tFirst = "none" => tSettles = 0 /\ tRace.state \in {"none", "pending"})
    /\ (tFirst = "operation" => tSettles = 1 /\ tRace = tOp)
    /\ (tFirst = "timer" =>
            /\ tSettles = 1
            /\ tRace = Rejected(TimeoutError(tName,
                           GetTimeout(tName, networkSpeed, deviceCapability))))
    /\ (tFirst = "timer" /\ tName = "bookingsLoad" /\ networkSpeed = "normal"
            /\ deviceCapability = "medium" =>
            tRace.v = "bookingsLoad timeout after 15000ms")
    /\ (tTimer = "fired" => tRace.state \in {"fulfilled", "rejected"})

\* The timer expired first and the operation completed afterwards.
C4_Witness ==
    /\ tFirst = "timer" /\ tTimer = "fired"
    /\ tOp.state = "fulfilled"
    /\ tRace.state = "rejected"

(***************************************************************************)
(* Properties: getTimeout (under SpecGetTimeout)                           *)
(***************************************************************************)
\* The multipliers of the claim, in tenths.
ClaimedNetworkTenths(ns) == IF ns = "fast" THEN 8 ELSE IF ns = "normal" THEN 10 ELSE 20
ClaimedDeviceTenths(dc)  == IF dc = "high" THEN 8 ELSE IF dc = "medium" THEN 10 ELSE 15

Abs(x) == IF x < 0 THEN -x ELSE x

\* C5: getTimeout(operation) is the integer nearest to base * network multiplier *
\* device multiplier, where base is the operation's entry of baseTimeouts
\* (bookingsLoad: 15000) and 5000 for a name that baseTimeouts does not hold.
C5_TimeoutIsRoundedProduct ==
    lastTimeout.operation # "" =>
        LET op    == lastTimeout.operation
            base  == IF op \in DOMAIN baseTimeouts THEN baseTimeouts[op] ELSE 5000
            exact == base * ClaimedNetworkTenths(lastTimeout.networkSpeed)
                          * ClaimedDeviceTenths(lastTimeout.deviceCapability)
        IN  /\ lastTimeout.result.t = "number"
            /\ Abs(100 * lastTimeout.result.v - exact) <= 50
            /\ (op = "bookingsLoad" /\ lastTimeout.networkSpeed = "slow"
                   /\ lastTimeout.deviceCapability = "low" => lastTimeout.result.v = 45000)

(***************************************************************************)
(* Properties: classification (C6, C7 under SpecClassify; C8 under Spec)   *)
(***************************************************************************)
SampledLoadTime ==
    atInit.browser.timing.loadEventEnd - atInit.browser.timing.navigationStart

\* C6: init() classifies effectiveType '4g' as fast and '2g' as slow; with no
\* connection API it classifies by page load time: above 3000 ms slow, above
\* 1500 ms normal, otherwise fast.
C6_NetworkClassification ==
    ~atInit.browser.networkThrows =>
        /\ (atInit.browser.connection = "4g" => atInit.networkSpeed = "fast")
        /\ (atInit.browser.connection = "2g" => atInit.networkSpeed = "slow")
        /\ (atInit.browser.connection = "undefined" /\ atInit.browser.timing.present =>
                /\ (SampledLoadTime > 3000 => atInit.networkSpeed = "slow")
                /\ (SampledLoadTime > 1500 /\ SampledLoadTime <= 3000 =>
                        atInit.networkSpeed = "normal")
                /\ (SampledLoadTime <= 1500 => atInit.networkSpeed = "fast"))

\* A reset() after the load event, in a browser without the connection API,
\* classified a 3001 ms page load as slow.
C6_Witness ==
    /\ atInit.browser.connection = "undefined" /\ ~atInit.browser.networkThrows
    /\ atInit.browser.timing.present
    /\ SampledLoadTime = 3001
    /\ networkSpeed = "slow"

NetworkSignalsMissing(b) == b.connection = "undefined"
HardwareSignalsMissing(b) == b.hardwareConcurrency = 0 /\ b.deviceMemory = 0

\* C7 as claimed: when the network signals are missing or throw, init() leaves
\* networkSpeed 'normal'; when the hardware signals are missing or throw, it
\* leaves deviceCapability 'medium'.
C7_DefaultsToMidpoint ==
    /\ (atInit.browser.networkThrows \/ NetworkSignalsMissing(atInit.browser) =>
            atInit.networkSpeed = "normal")
    /\ (atInit.browser.hardwareThrows \/ HardwareSignalsMissing(atInit.browser) =>
            atInit.deviceCapability = "medium")

\* C7 as amended: the mid-point is the default when the detection throws. A
\* missing connection API gives the load-time estimate (the not-yet-loaded page
\* reads as fast), or leaves 'normal' when performance.timing is missing too. A
\* missing hardwareConcurrency counts as 1 core and gives 'low'; a missing
\* deviceMemory counts as 4 GB and gives 'medium' from 2 cores on.
C7_DefaultsWhenThrown ==
    /\ (atInit.browser.networkThrows => atInit.networkSpeed = "normal")
    /\ (atInit.browser.hardwareThrows => atInit.deviceCapability = "medium")
    /\ (~atInit.browser.networkThrows /\ NetworkSignalsMissing(atInit.browser) =>
            IF atInit.browser.timing.present
            THEN atInit.browser.timing.loadEventEnd = 0 => atInit.networkSpeed = "fast"
            ELSE atInit.networkSpeed = "normal")
    /\ (~atInit.browser.hardwareThrows /\ atInit.browser.hardwareConcurrency = 0 =>
            atInit.deviceCapability = "low")
    /\ (~atInit.browser.hardwareThrows /\ atInit.browser.hardwareConcurrency >= 2
            /\ atInit.browser.deviceMemory = 0 => atInit.deviceCapability = "medium")

\* init() ran in a browser whose network detection throws and that reports no
\* hardware signals.
C7_Witness ==
    /\ atInit.browser.networkThrows /\ networkSpeed = "normal"
    /\ ~atInit.browser.hardwareThrows /\ HardwareSignalsMissing(atInit.browser)
    /\ deviceCapability = "low"

\* C8 as claimed: after init() the classification, and so getTimeout's value for
\* a name, stays what init() derived.
C8_ClassificationStatic ==
    /\ networkSpeed = atInit.networkSpeed
    /\ deviceCapability = atInit.deviceCapability
    /\ GetTimeout("bookingsLoad", networkSpeed, deviceCapability)
           = GetTimeout("bookingsLoad", atInit.networkSpeed, atInit.deviceCapability)

\* C8 as amended: networkSpeed stays what the last init() derived; deviceCapability
\* is either what the last init() derived or 'low' (a memory check degraded it).
C8_NetworkStaticDeviceDegrades ==
    /\ networkSpeed = atInit.networkSpeed
    /\ deviceCapability \in {atInit.deviceCapability, "low"}

\* A memory check has degraded a device that init() classified as high.
C8_Witness ==
    /\ atInit.deviceCapability = "high"
    /\ deviceCapability = "low"
    /\ networkSpeed = atInit.networkSpeed

(***************************************************************************)
(* Properties: console.error suppression (under SpecConsole)               *)
(***************************************************************************)
IsError(i) == events[i].op = "error"
ErrorText(i) == MessageOf(events[i].args)
Forwarded(i) == events[i].out = << events[i].args >>
Suppressed(i) == events[i].out = << >>

PatternsOf(msg) ==
    { InitialSuppressPatterns[k] : k \in { n \in 1..Len(InitialSuppressPatterns) :
                                            Includes(msg, InitialSuppressPatterns[n]) } }
SharePattern(i, j) == PatternsOf(ErrorText(i)) \cap PatternsOf(ErrorText(j)) # {}

\* No event with an operation in ops at the positions from..to of the history.
NoneOf(ops, from, to) == \A k \in from..to : events[k].op \notin ops

\* C9 as claimed: once a console.error message containing a suppress pattern has
\* occurred, every later console.error message containing that pattern is
\* suppressed, whatever happens in between.
C9_SecondOccurrenceSuppressed ==
    \A i \in 1..Len(events) : \A j \in (i + 1)..Len(events) :
        (IsError(i) /\ IsError(j) /\ SharePattern(i, j)) => Suppressed(j)

\* C9 as amended: once a console.error message containing a suppress pattern has
\* been forwarded, every later console.error message containing that pattern is
\* suppressed, and the pattern's key stays recorded, as long as
\* enableVerboseMode() and restore() have not been called and reset() has not
\* been called since.
C9_SuppressedUntilCleared ==
    \A i \in 1..Len(events) :
        (IsError(i) /\ Forwarded(i) /\ NoneOf({"verbose", "restore"}, 1, i)) =>
            /\ \A j \in (i + 1)..Len(events) :
                   (IsError(j) /\ SharePattern(i, j)
                       /\ NoneOf({"reset", "verbose", "restore"}, i, j)) => Suppressed(j)
            /\ NoneOf({"reset", "verbose"}, i, Len(events)) =>
                   \A p \in PatternsOf(ErrorText(i)) : ErrorKey(p) \in suppressedErrors

\* A second console.error message with an already forwarded pattern was suppressed.
C9_Witness ==
    \E i \in 1..Len(events) : \E j \in (i + 1)..Len(events) :
        /\ IsError(i) /\ Forwarded(i) /\ IsError(j) /\ SharePattern(i, j)
        /\ NoneOf({"reset", "verbose", "restore"}, 1, j)
        /\ Suppressed(j)

\* C10 as claimed: a console.error message whose text has not occurred before is
\* forwarded with its arguments unchanged.
C10_FirstOccurrenceForwarded ==
    \A j \in 1..Len(events) :
        (IsError(j) /\ \A i \in 1..(j - 1) : IsError(i) => ErrorText(i) # ErrorText(j))
            => Forwarded(j)

\* The last reset() or enableVerboseMode() before position j (0 when there is none).
LastClearBefore(j) ==
    LET clears == { k \in 1..(j - 1) : events[k].op \in {"reset", "verbose"} }
    IN  IF clears = {} THEN 0 ELSE CHOOSE k \in clears : \A m \in clears : m <= k

\* C10 as amended: a console.error message is forwarded with its arguments
\* unchanged when no console.error message since the last reset() or
\* enableVerboseMode() contained a suppress pattern that it contains; so a
\* message without any suppress pattern is always forwarded.
C10_NewPatternForwarded ==
    \A j \in 1..Len(events) :
        (IsError(j) /\ \A i \in (LastClearBefore(j) + 1)..(j - 1) :
                           IsError(i) => ~SharePattern(i, j))
            => Forwarded(j)

\* After an earlier console.error message with another suppress pattern, a message
\* with a suppress pattern not seen before was forwarded by the override.
C10_Witness ==
    \E i \in 1..Len(events) : \E j \in (i + 1)..Len(events) :
        /\ IsError(i) /\ PatternsOf(ErrorText(i)) # {}
        /\ IsError(j) /\ PatternsOf(ErrorText(j)) # {}
        /\ ~SharePattern(i, j)
        /\ installed
        /\ Forwarded(j)

(***************************************************************************)
(* Properties: verbose mode (under SpecConsole)                            *)
(***************************************************************************)
IsCall(i) == events[i].op \in {"error", "warn", "log"}
IsLog(i) == events[i].op = "log"
\* enableVerboseMode() was called before position j of the history.
VerboseBefore(j) == \E i \in 1..(j - 1) : events[i].op = "verbose"

\* C11 as claimed: enableVerboseMode() leaves suppressedErrors empty, and after
\* it no console.error, console.warn or console.log message is filtered again,
\* whatever operations follow.
C11_NeverFilteredAfterVerbose ==
    /\ (Len(events) > 0 /\ events[Len(events)].op = "verbose") => suppressedErrors = {}
    /\ \A j \in 1..Len(events) : (IsCall(j) /\ VerboseBefore(j)) => Forwarded(j)

\* C11 as amended: once enableVerboseMode() has been called, suppressedErrors and
\* suppressPatterns stay empty and every console.error and console.warn message
\* is forwarded, whatever operations follow; a console.log message is forwarded
\* as long as enableProductionMode() has not been called since.
C11_PatternFilteringOffAfterVerbose ==
    /\ VerboseBefore(Len(events) + 1) => (suppressedErrors = {} /\ suppressPatterns = << >>)
    /\ \A j \in 1..Len(events) :
           (events[j].op \in {"error", "warn"} /\ VerboseBefore(j)) => Forwarded(j)
    /\ \A i \in 1..Len(events) : \A j \in (i + 1)..Len(events) :
           (events[i].op = "verbose" /\ IsLog(j) /\ NoneOf({"production"}, i, j))
               => Forwarded(j)

\* A console.error message with a suppress pattern was forwarded, verbose mode
\* was enabled, and a later message with the same pattern went through the
\* override and was forwarded again.
C11_Witness ==
    \E i \in 1..Len(events) : \E k \in (i + 1)..Len(events) : \E j \in (k + 1)..Len(events) :
        /\ IsError(i) /\ Forwarded(i) /\ events[k].op = "verbose"
        /\ IsError(j) /\ SharePattern(i, j) /\ Forwarded(j)
        /\ installed

(***************************************************************************)
(* Properties: the console.log override (under SpecLog)                    *)
(***************************************************************************)
\* The gated categories that the tag at the start of msg names: the text between
\* the brackets, in lower case, is the category.
NamedCategories(msg) ==
    { GatedCategories[k] : k \in { n \in 1..Len(GatedCategories) :
          StartsWith(ToLowerCase(msg), "[" \o GatedCategories[n] \o "]") } }

\* C12: in production mode with debugCategories.all false, a console.log message
\* without an always-shown marker reaches the original console.log exactly when
\* the debug category its '[category]' tag names is enabled; a message whose tag
\* names none of booking, auth, firebase, ui, or that has no tag, is forwarded.
C12_GatedByNamedCategory ==
    [][\A args \in LogArgs :
          (/\ ConsoleLog(args)
           /\ installed /\ productionMode /\ ~debugCategories.all
           /\ ~IsImportant(MessageOf(args)))
          => ((events'[Len(events')].out = Forward(args))
                 <=> \A c \in NamedCategories(MessageOf(args)) : debugCategories[c])]_vars

(***************************************************************************)
(* Properties: debug categories (under SpecLog)                            *)
(***************************************************************************)
\* The values one operation of the manager can give debugCategories:
\* enableDebugCategory(c), enableVerboseMode(), enableProductionMode(), and the
\* value itself for the operations and console calls that do not assign it.
CategoryOperations(categories) ==
    { WithCategory(categories, c) : c \in DebugCategoryArgs }
        \cup { WithAll(categories, TRUE), WithAll(categories, FALSE), categories }

\* The values of debugCategories that sequences of operations lead to from set.
RECURSIVE ReachableCategories(_)
ReachableCategories(set) ==
    LET next == set \cup UNION { CategoryOperations(d) : d \in set }
    IN  IF next = set THEN set ELSE ReachableCategories(next)

\* Enabling a category, and switching `all` by the two modes, changes no other flag.
C13_OtherCategoriesUnchanged ==
    /\ \A c \in DebugCategoryArgs : \A k \in DOMAIN debugCategories \ {c} :
           WithCategory(debugCategories, c)[k] = debugCategories[k]
    /\ \A v \in BOOLEAN : \A k \in DOMAIN debugCategories \ {"all"} :
           WithAll(debugCategories, v)[k] = debugCategories[k]

\* C13: each debug category can be enabled and disabled independently: an
\* operation on one category leaves the other flags unchanged, and from every
\* reachable state some sequence of operations leads to a state in which a
\* category that is enabled now is disabled.
C13_EnabledCategoryCanBeDisabled ==
    /\ C13_OtherCategoriesUnchanged
    /\ \A c \in DOMAIN debugCategories :
           debugCategories[c] =>
               \E d \in ReachableCategories({debugCategories}) : ~d[c]

\* What holds instead: no step ever disables booking, auth, firebase or ui.
C13_EnabledStaysEnabled ==
    [][\A k \in 1..Len(GatedCategories) :
          debugCategories[GatedCategories[k]] => debugCategories'[GatedCategories[k]]]_vars

(***************************************************************************)
(* Properties: important messages (under SpecLog)                          *)
(***************************************************************************)
\* The message contains one of the markers the claim lists.
HasMarker(msg) ==
    \/ Includes(msg, CheckMark) \/ Includes(msg, Siren) \/ Includes(msg, CrossMark)
    \/ Includes(msg, "Error") \/ Includes(msg, "error")
    \/ Includes(msg, "Success") \/ Includes(msg, "success")

\* C16: a console.log message whose first argument contains a check-mark, alarm
\* or cross marker, 'Error', 'error', 'Success' or 'success' is forwarded to the
\* original console.log with its arguments, in every mode and with every setting
\* of the debug categories, also when it starts with the tag of a disabled category.
C16_ImportantAlwaysForwarded ==
    \A j \in 1..Len(events) :
        (IsLog(j) /\ HasMarker(MessageOf(events[j].args))) => Forwarded(j)

\* In production mode, with no category enabled and the override installed, a
\* message tagged with a gated category and carrying a marker was forwarded.
C16_Witness ==
    \E j \in 1..Len(events) :
        /\ IsLog(j) /\ HasMarker(MessageOf(events[j].args))
        /\ NamedCategories(MessageOf(events[j].args)) # {}
        /\ NoneOf({"verbose", "debug", "restore"}, 1, j)
        /\ Forwarded(j)

(***************************************************************************)
(* Properties: backoff delays (under SpecBackoff)                          *)
(***************************************************************************)
\* The product of the two multipliers of the current classification, in hundredths.
MultiplierHundredths ==
    ClaimedNetworkTenths(networkSpeed) * ClaimedDeviceTenths(deviceCapability)

\* The delays of a system whose multipliers are both 1.0, in milliseconds.
UnscaledDelays == << 1000, 1500, 2250, 3375, 5063, 7594, 11391 >>

\* C14 as claimed: the delays between attempts scale with the network and device
\* multipliers: where their product is above 1 every delay is longer than the
\* delay of a system with multipliers 1.0, where it is below 1 every delay is shorter.
C14_DelaysScaleWithMultipliers ==
    \A k \in 1..Len(rDelays) :
        /\ MultiplierHundredths > 100 => rDelays[k] > UnscaledDelays[k]
        /\ MultiplierHundredths < 100 => rDelays[k] < UnscaledDelays[k]

\* C14 as amended: the delays between attempts do not depend on the
\* classification: in every network and device class the k-th delay is the
\* same number of milliseconds.
C14_DelaysIgnoreMultipliers ==
    \A k \in 1..Len(rDelays) : rDelays[k] = UnscaledDelays[k]

\* On a slow network and a low-capability device, two delays have been waited.
C14_Witness ==
    /\ networkSpeed = "slow" /\ deviceCapability = "low"
    /\ Len(rDelays) >= 2
    /\ rPc = "awaitOperation"

\* C15: the delay after failed attempt k < maxAttempts is round(1000 * 1.5^(k-1))
\* ms (1000, 1500, 2250, 3375, ...): each delay is larger than the one before,
\* by the factor 1.5 up to rounding, and every attempt after the first starts
\* only after the delay that follows the failed attempt before it.
C15_ExponentialBackoff ==
    /\ \A k \in 1..Len(rDelays) :
           /\ 2 * Abs(rDelays[k] * Pow(2, k - 1) - 1000 * Pow(3, k - 1)) <= Pow(2, k - 1)
           /\ k > 1 => /\ rDelays[k] > rDelays[k - 1]
                       /\ Abs(2 * rDelays[k] - 3 * rDelays[k - 1]) <= 2
    /\ Len(rDelays) >= 4 => SubSeq(rDelays, 1, 4) = << 1000, 1500, 2250, 3375 >>
    /\ rPc = "awaitOperation" => Len(rDelays) = rInvocations - 1
    /\ rPc = "awaitDelay" => (Len(rDelays) = rInvocations /\ rAttempt < rMax)
    /\ rPc \in {"resolved", "rejected"} => Len(rDelays) = rInvocations - 1

\* The sixth attempt runs after five failed attempts and five growing delays.
C15_Witness ==
    /\ rPc = "awaitOperation"
    /\ rInvocations = 6
    /\ Len(rDelays) = 5
    /\ rDelays[5] > rDelays[4]

(***************************************************************************)
(* Properties: metrics history (under SpecMetrics)                         *)
(***************************************************************************)
\* The last n elements of seq.
Suffix(seq, n) == SubSeq(seq, Len(seq) - n + 1, Len(seq))

\* C17: performanceMetrics never holds more than 100 metrics, and recording
\* metrics keeps the most recent ones in arrival order: after a resource entry
\* has been recorded, the history is the old history followed by the new
\* metrics, cut from the front to the last 100 when it would be longer.
C17_KeepsRecentMetrics ==
    /\ [](Len(performanceMetrics) <= 100)
    /\ [][nextEntry' # nextEntry =>
            LET metric == [type |-> "resource", name |-> nextEntry']
                all == performanceMetrics \o [i \in 1..observers |-> metric]
            IN  performanceMetrics' = Suffix(all, Min(Len(all), 100))]_vars

\* The history is full and its oldest metrics have been evicted.
C17_Witness ==
    /\ Len(performanceMetrics) = 100
    /\ performanceMetrics[1].name > 1
    /\ performanceMetrics[100].name = nextEntry

(***************************************************************************)
(* Properties: the periodic memory check (under SpecClassify)              *)
(***************************************************************************)
CapabilityRank(dc) == IF dc = "low" THEN 1 ELSE IF dc = "medium" THEN 2 ELSE 3

\* C18: a memory check that reads usage above 0.9 sets deviceCapability to
\* 'low'; one that reads usage below 0.5 while deviceCapability is 'low' sets it
\* to the class hardware detection gave at init; one that reads usage from 0.5
\* to 0.9 leaves it unchanged; no check changes networkSpeed or leaves
\* deviceCapability above the class of hardware detection.
C18_MemoryCheckSteps ==
    [][\A u \in MemoryUsages :
          MemoryCheck(u) =>
              /\ u > 90 => deviceCapability' = "low"
              /\ (u < 50 /\ deviceCapability = "low")
                     => deviceCapability' = atInit.deviceCapability
              /\ (u >= 50 /\ u <= 90) => deviceCapability' = deviceCapability
              /\ (u < 50 /\ deviceCapability # "low") => deviceCapability' = deviceCapability
              /\ networkSpeed' = networkSpeed
              /\ CapabilityRank(deviceCapability')
                     <= CapabilityRank(atInit.deviceCapability)]_vars

\* A memory check has degraded a device that hardware detection classed medium.
C18_Witness ==
    /\ memoryTimers > 0
    /\ atInit.deviceCapability = "medium"
    /\ deviceCapability = "low"

(***************************************************************************)
(* Properties: timers and observers across reset() (under SpecClassify)    *)
(***************************************************************************)
\* How many times the entry with the given name is in the metrics history.
TimesRecorded(name) ==
    Cardinality({ i \in 1..Len(performanceMetrics) : performanceMetrics[i].name = name })

\* C19: at any time the system has at most one active memory-check timer and at
\* most one resource observer, whatever number of reset() calls there has been,
\* and no resource entry is in performanceMetrics more than once.
C19_OneTimerOneObserver ==
    /\ memoryTimers <= 1
    /\ observers <= 1
    /\ \A name \in 1..nextEntry : TimesRecorded(name) <= 1

(***************************************************************************)
(* Properties: executeWithTimeout and retry (under SpecTimeout)            *)
(***************************************************************************)
\* C20: executeWithTimeout retries: when the operation fails before the timer
\* expires, the call does not settle with that first failure.
C20_FirstFailureNotReturned ==
    ~(/\ tFirst = "operation"
      /\ tOp.state = "rejected"
      /\ tRace = tOp)

(***************************************************************************)
(* Properties: the clean logger (under SpecLogger)                         *)
(***************************************************************************)
IsLoggerCall(e) == e.op \in {"logger.info", "logger.success", "logger.warning", "logger.error"}

\* The original console function the claim names for each logger method.
ClaimedTarget(op) ==
    IF op = "logger.info" THEN "info"
    ELSE IF op = "logger.success" THEN "log"
    ELSE IF op = "logger.warning" THEN "warn"
    ELSE "error"

\* C21: every call of logger.info / success / warning / error reaches the
\* original console function once, with the message in its first argument and
\* the other arguments behind it, in every state of suppressedErrors,
\* suppressPatterns, productionMode and debugCategories, and the call changes
\* none of these nor whether the overrides are installed.
C21_CleanLoggerBypassesFiltering ==
    [][(Len(events') = Len(events) + 1 /\ IsLoggerCall(events'[Len(events')])) =>
          LET e == events'[Len(events')]
          IN  /\ e.to = ClaimedTarget(e.op)
              /\ Len(e.out) = 1
              /\ Len(e.out[1]) >= 1
              /\ Includes(e.out[1][1], MessageOf(e.args))
              /\ Len(e.args) > 0 => Tail(e.out[1]) = Tail(e.args)
              /\ UNCHANGED <<suppressedErrors, suppressPatterns, productionMode,
                             debugCategories, installed>>]_vars

\* A console.error message with a suppress pattern was forwarded and its key is
\* recorded, so the override would drop the next one; a later logger.error call
\* with the same pattern reached the original console.error.
C21_Witness ==
    \E i \in 1..Len(events) : \E j \in (i + 1)..Len(events) :
        /\ IsError(i) /\ Forwarded(i)
        /\ events[j].op = "logger.error"
        /\ PatternsOf(ErrorText(i)) \cap PatternsOf(MessageOf(events[j].args)) # {}
        /\ NoneOf({"reset", "verbose", "restore"}, 1, j)
        /\ \A p \in PatternsOf(ErrorText(i)) : ErrorKey(p) \in suppressedErrors
        /\ installed
        /\ Len(events[j].out) = 1

====
